---- MODULE Spec2Model ----
(***************************************************************************)
(* Model of src/code/main.py: the PCA9685 servo sweep script and its       *)
(* move_servos_smoothly function.                                          *)
(*                                                                         *)
(* Angles are Python numbers.  They are modelled as exact rationals        *)
(* <<numerator, denominator>> in lowest terms with a positive denominator; *)
(* Python's None is the pair <<0, 0>>.  Rounding of binary floating point  *)
(* is not modelled: every arithmetic operation below is the exact one.     *)
(*                                                                         *)
(* Two specifications share the actions of move_servos_smoothly:           *)
(*   Spec       one call of move_servos_smoothly with arguments drawn from *)
(*              bounded sets (any starting angles, target and step);       *)
(*   SweepSpec  the script's main execution (lines 133-161) with the       *)
(*              configuration of lines 8-26.                               *)
(* In both, a servo write may raise and Ctrl+C may arrive at any point.    *)
(***************************************************************************)
EXTENDS Integers, Sequences, FiniteSets, TLC

VARIABLES
    active_servos,   \* per active servo: the last angle accepted by s.angle = ...
    current_angles,  \* the tracked angle list (main's list, aliased by the parameter)
    target_angle,    \* move_servos_smoothly's local target_angle
    step,            \* the step argument
    num_steps,       \* local num_steps
    increments,      \* local increments list
    step_num,        \* outer loop variable: ticks completed so far
    i,               \* inner loop index (1-based) of the loop in progress
    new_angle,       \* local new_angle
    pc,              \* position inside move_servos_smoothly ("idle" outside it)
    mpc,             \* position of the main execution ("caller" for a bare call)
    exc,             \* exception that ended the run, "none" while running
    requested,       \* history: target_angle as passed by the caller
    start_angles,    \* history: current_angles when the move was entered
    tick_writes,     \* history: per servo, writes accepted in the tick loop of this move
    snap_writes,     \* history: per servo, writes accepted in the final adjustment
    last_target      \* history: requested target of the previous move

vars == <<active_servos, current_angles, target_angle, step, num_steps,
          increments, step_num, i, new_angle, pc, mpc, exc, requested,
          start_angles, tick_writes, snap_writes, last_target>>

(***************************************************************************)
(* Configuration (lines 8-26).                                             *)
(***************************************************************************)
NUM_SERVOS == 16
SERVO_ACTUATION_RANGE == 180
INITIAL_ANGLE == 90
SWEEP_START_ANGLE == 60
SWEEP_END_ANGLE == 120
SWEEP_STEP == 1

(***************************************************************************)
(* Bounds of the single-call specification.                                *)
(***************************************************************************)
MaxServos == 2      \* active servos in a bare call
OutOfRange == 5     \* how far outside [0, range] a starting angle may lie
OverTarget == 20    \* how far above the range a requested target may lie
UnderTarget == 10   \* how far below 0 a requested target may lie

(***************************************************************************)
(* Python numbers as exact rationals.                                      *)
(***************************************************************************)
None == <<0, 0>>

Abs(x) == IF x < 0 THEN -x ELSE x

RECURSIVE GCD(_, _)
GCD(a, b) == IF b = 0 THEN a ELSE GCD(b, a % b)

Norm(n, d) ==
    LET s == IF d < 0 THEN -1 ELSE 1
        g == GCD(Abs(n), Abs(d))
    IN  <<(s * n) \div g, (s * d) \div g>>

R(n) == <<n, 1>>

RAdd(a, b) == Norm(a[1] * b[2] + b[1] * a[2], a[2] * b[2])
RSub(a, b) == Norm(a[1] * b[2] - b[1] * a[2], a[2] * b[2])
RDiv(a, b) == Norm(a[1] * b[2], a[2] * b[1])
RLe(a, b) == a[1] * b[2] <= b[1] * a[2]
RLt(a, b) == a[1] * b[2] < b[1] * a[2]
RMax(a, b) == IF RLt(a, b) THEN b ELSE a
RMin(a, b) == IF RLt(b, a) THEN b ELSE a
RAbs(a) == <<Abs(a[1]), a[2]>>

\* int(x): truncation toward zero
Trunc(a) == IF a[1] >= 0 THEN a[1] \div a[2] ELSE -((-a[1]) \div a[2])

(***************************************************************************)
(* Helpers of move_servos_smoothly (lines 81-129).                         *)
(***************************************************************************)
Servos == DOMAIN active_servos
N == Cardinality(Servos)

min_angle == R(0)
max_angle == R(SERVO_ACTUATION_RANGE)

\* mutant: the lower bound of the clamp is forgotten
ClampUpperOnly(a) == RMin(max_angle, a)

\* max(min_angle, min(max_angle, a)), lines 88 and 116
ClampAngle(a) == RMax(min_angle, RMin(max_angle, a))

\* "if current_angles[i] is not None", lines 93, 104, 125
Moved(k) == current_angles[k] # None

\* mutant: a servo already at the target is left out of the tick loop
InTickUnlessAtTarget(k) == current_angles[k] # None /\ current_angles[k] # target_angle

\* the condition of line 113
InTick(k) == current_angles[k] # None

Least(S) == CHOOSE x \in S : \A y \in S : x <= y

\* next index >= k the tick loop body acts on; N + 1 when the inner loop is over
NextInTick(k) ==
    LET S == {j \in Servos : j >= k /\ InTick(j)}
    IN  IF S = {} THEN N + 1 ELSE Least(S)

\* next index >= k the final adjustment acts on
NextInSnap(k) ==
    LET S == {j \in Servos : j >= k /\ Moved(j)}
    IN  IF S = {} THEN N + 1 ELSE Least(S)

\* lines 91-94: the largest |target - current| over the servos 1..k, 0 if none
MaxDelta(t, k) ==
    LET D == {RAbs(RSub(t, current_angles[j])) : j \in {j \in 1..k : Moved(j)}}
                \cup {R(0)}
    IN  CHOOSE d \in D : \A e \in D : RLe(e, d)

\* mutant: the quotient is rounded up instead of truncated
NumStepsRoundUp(md, st) ==
    LET q == RDiv(md, st)
        n == IF Trunc(q) * q[2] = q[1] THEN Trunc(q) ELSE Trunc(q) + 1
    IN  IF n = 0 THEN 1 ELSE n

\* lines 97-99: int(max_delta / step), and 1 when that is 0
NumSteps(md, st) ==
    LET n == Trunc(RDiv(md, st))
    IN  IF n = 0 THEN 1 ELSE n

\* mutant: the constant-magnitude step of the other driver
IncrementConstantStep(t, c, n) ==
    IF RLt(c, t) THEN R(1) ELSE IF RLt(t, c) THEN R(-1) ELSE R(0)

\* line 105: (target_angle - current_angles[i]) / num_steps
Increment(t, c, n) == RDiv(RSub(t, c), R(n))

\* mutant: the intermediate angle reaches the servo unclamped
TickAngleUnclamped(a) == a

\* line 116: the angle assigned to s.angle in a tick
TickAngle(a) == ClampAngle(a)

\* line 126: the angle assigned to s.angle in the final adjustment
SnapAngle == target_angle

\* mutant: the tracker is updated before s.angle is assigned
AnglesStoredBeforeWrite ==
    IF pc = "tick_write"
    THEN [current_angles EXCEPT ![i] = RAdd(current_angles[i], increments[i])]
    ELSE IF pc = "snap_write"
         THEN [current_angles EXCEPT ![i] = target_angle]
         ELSE [current_angles EXCEPT ![i] = R(INITIAL_ANGLE)]

\* current_angles when "s.angle = ..." raises: the statement after it never runs
AnglesAfterFailedWrite == current_angles

Running == exc = "none"

(***************************************************************************)
(* move_servos_smoothly.                                                   *)
(***************************************************************************)
\* lines 83-107: clamp the target, max_delta, num_steps, increments
Plan ==
    /\ Running /\ pc = "plan"
    /\ start_angles' = current_angles
    /\ tick_writes' = [k \in Servos |-> 0]
    /\ snap_writes' = [k \in Servos |-> 0]
    /\ step_num' = 0
    /\ new_angle' = None
    /\ target_angle' = ClampAngle(target_angle)
    /\ IF step = R(0)
       THEN \* line 97: max_delta / step raises ZeroDivisionError
            /\ exc' = "ZeroDivisionError"
            /\ UNCHANGED <<num_steps, increments, i, pc>>
       ELSE /\ num_steps' = NumSteps(MaxDelta(target_angle', N), step)
            /\ increments' =
                 [k \in Servos |->
                    IF Moved(k)
                    THEN Increment(target_angle', current_angles[k], num_steps')
                    ELSE R(0)]
            /\ IF num_steps' > 0
               THEN /\ i' = NextInTick(1)
                    /\ pc' = IF i' > N THEN "tick_sleep" ELSE "tick_write"
               ELSE /\ i' = NextInSnap(1)
                    /\ pc' = IF i' > N THEN "return" ELSE "snap_write"
            /\ UNCHANGED exc
    /\ UNCHANGED <<active_servos, current_angles, step, mpc, requested, last_target>>

\* lines 114-116: new_angle, and the servo accepts the clamped angle
TickWrite ==
    /\ Running /\ pc = "tick_write"
    /\ new_angle' = RAdd(current_angles[i], increments[i])
    /\ active_servos' = [active_servos EXCEPT ![i] = TickAngle(new_angle')]
    /\ tick_writes' = [tick_writes EXCEPT ![i] = @ + 1]
    /\ pc' = "tick_store"
    /\ UNCHANGED <<current_angles, target_angle, step, num_steps, increments,
                   step_num, i, mpc, exc, requested, start_angles, snap_writes,
                   last_target>>

\* line 117, then the next servo of the inner loop
TickStore ==
    /\ Running /\ pc = "tick_store"
    /\ current_angles' = [current_angles EXCEPT ![i] = new_angle]
    /\ i' = NextInTick(i + 1)
    /\ pc' = IF i' > N THEN "tick_sleep" ELSE "tick_write"
    /\ UNCHANGED <<active_servos, target_angle, step, num_steps, increments,
                   step_num, new_angle, mpc, exc, requested, start_angles,
                   tick_writes, snap_writes, last_target>>

\* line 119, then the next tick or (lines 123-124) the final adjustment
TickSleep ==
    /\ Running /\ pc = "tick_sleep"
    /\ step_num' = step_num + 1
    /\ IF step_num' < num_steps
       THEN /\ i' = NextInTick(1)
            /\ pc' = IF i' > N THEN "tick_sleep" ELSE "tick_write"
       ELSE /\ i' = NextInSnap(1)
            /\ pc' = IF i' > N THEN "return" ELSE "snap_write"
    /\ UNCHANGED <<active_servos, current_angles, target_angle, step, num_steps,
                   increments, new_angle, mpc, exc, requested, start_angles,
                   tick_writes, snap_writes, last_target>>

\* line 126: the servo accepts the target
SnapWrite ==
    /\ Running /\ pc = "snap_write"
    /\ active_servos' = [active_servos EXCEPT ![i] = SnapAngle]
    /\ snap_writes' = [snap_writes EXCEPT ![i] = @ + 1]
    /\ pc' = "snap_store"
    /\ UNCHANGED <<current_angles, target_angle, step, num_steps, increments,
                   step_num, i, new_angle, mpc, exc, requested, start_angles,
                   tick_writes, last_target>>

\* line 127, then the next servo
SnapStore ==
    /\ Running /\ pc = "snap_store"
    /\ current_angles' = [current_angles EXCEPT ![i] = target_angle]
    /\ i' = NextInSnap(i + 1)
    /\ pc' = IF i' > N THEN "return" ELSE "snap_write"
    /\ UNCHANGED <<active_servos, target_angle, step, num_steps, increments,
                   step_num, new_angle, mpc, exc, requested, start_angles,
                   tick_writes, snap_writes, last_target>>

\* lines 128-129: return current_angles to the caller
Return ==
    /\ Running /\ pc = "return"
    /\ pc' = IF mpc = "caller" THEN "returned" ELSE "idle"
    /\ mpc' = IF mpc = "l145" THEN "l146" ELSE IF mpc = "l148" THEN "l149" ELSE mpc
    /\ last_target' = requested
    /\ UNCHANGED <<active_servos, current_angles, target_angle, step, num_steps,
                   increments, step_num, i, new_angle, exc, requested,
                   start_angles, tick_writes, snap_writes>>

\* "s.angle = ..." raises (lines 116, 126, 138): nothing catches it before line 153
ServoWriteFails ==
    /\ Running
    /\ pc \in {"tick_write", "snap_write"} \/ mpc = "init_write"
    /\ exc' = "OSError"
    /\ current_angles' = AnglesAfterFailedWrite
    /\ UNCHANGED <<active_servos, target_angle, step, num_steps, increments,
                   step_num, i, new_angle, pc, mpc, requested, start_angles,
                   tick_writes, snap_writes, last_target>>

\* Ctrl+C: KeyboardInterrupt is raised wherever the script happens to be (line 151)
KeyboardInterrupt ==
    /\ Running
    /\ pc # "returned"
    /\ exc' = "KeyboardInterrupt"
    /\ UNCHANGED <<active_servos, current_angles, target_angle, step, num_steps,
                   increments, step_num, i, new_angle, pc, mpc, requested,
                   start_angles, tick_writes, snap_writes, last_target>>

(***************************************************************************)
(* One call of move_servos_smoothly.                                       *)
(***************************************************************************)
StartAngles ==
    {None, R(0 - OutOfRange), R(SWEEP_START_ANGLE), R(INITIAL_ANGLE),
     R(SERVO_ACTUATION_RANGE + OutOfRange)}

TargetAngles ==
    {R(0 - UnderTarget), R(SWEEP_START_ANGLE), R(SWEEP_END_ANGLE),
     R(SERVO_ACTUATION_RANGE + OverTarget)}

StepSizes == {R(-1), R(0), R(SWEEP_STEP), <<7, 2>>, R(16), R(200)}

Init ==
    /\ \E n \in 1..MaxServos :
          /\ active_servos = [k \in 1..n |-> None]
          /\ current_angles \in [1..n -> StartAngles]
          /\ increments = [k \in 1..n |-> R(0)]
          /\ tick_writes = [k \in 1..n |-> 0]
          /\ snap_writes = [k \in 1..n |-> 0]
    /\ start_angles = current_angles
    /\ target_angle \in TargetAngles
    /\ requested = target_angle
    /\ step \in StepSizes
    /\ num_steps = 0
    /\ step_num = 0
    /\ i = 1
    /\ new_angle = None
    /\ pc = "plan"
    /\ mpc = "caller"
    /\ exc = "none"
    /\ last_target = None

Next ==
    \/ Plan
    \/ TickWrite
    \/ TickStore
    \/ TickSleep
    \/ SnapWrite
    \/ SnapStore
    \/ Return
    \/ ServoWriteFails
    \/ KeyboardInterrupt

Spec == Init /\ [][Next]_vars

(***************************************************************************)
(* Main execution (lines 133-161).                                         *)
(***************************************************************************)
\* mutant: both calls of the loop ask for the end angle
SweepTargetAlwaysEnd == SWEEP_END_ANGLE

\* the target of the call at line 145 and of the call at line 148
SweepTarget == IF mpc = "l145" THEN SWEEP_END_ANGLE ELSE SWEEP_START_ANGLE

\* line 138: s.angle = INITIAL_ANGLE
InitWrite ==
    /\ Running /\ mpc = "init_write"
    /\ active_servos' = [active_servos EXCEPT ![i] = R(INITIAL_ANGLE)]
    /\ mpc' = "init_store"
    /\ UNCHANGED <<current_angles, target_angle, step, num_steps, increments,
                   step_num, i, new_angle, pc, exc, requested, start_angles,
                   tick_writes, snap_writes, last_target>>

\* line 139: current_angles[i] = INITIAL_ANGLE, then the next servo
InitStore ==
    /\ Running /\ mpc = "init_store"
    /\ current_angles' = [current_angles EXCEPT ![i] = R(INITIAL_ANGLE)]
    /\ i' = i + 1
    /\ mpc' = IF i' > N THEN "init_sleep" ELSE "init_write"
    /\ UNCHANGED <<active_servos, target_angle, step, num_steps, increments,
                   step_num, new_angle, pc, exc, requested, start_angles,
                   tick_writes, snap_writes, last_target>>

\* line 140: time.sleep(1)
InitSleep ==
    /\ Running /\ mpc = "init_sleep"
    /\ mpc' = "l145"
    /\ UNCHANGED <<active_servos, current_angles, target_angle, step, num_steps,
                   increments, step_num, i, new_angle, pc, exc, requested,
                   start_angles, tick_writes, snap_writes, last_target>>

\* lines 145 and 148: call move_servos_smoothly with the sweep's arguments
CallMove ==
    /\ Running /\ mpc \in {"l145", "l148"} /\ pc = "idle"
    /\ target_angle' = R(SweepTarget)
    /\ requested' = R(SweepTarget)
    /\ step' = R(SWEEP_STEP)
    /\ pc' = "plan"
    /\ UNCHANGED <<active_servos, current_angles, num_steps, increments,
                   step_num, i, new_angle, mpc, exc, start_angles, tick_writes,
                   snap_writes, last_target>>

\* lines 146 and 149: time.sleep(0.5), then the other call
Pause ==
    /\ Running /\ mpc \in {"l146", "l149"}
    /\ mpc' = IF mpc = "l146" THEN "l148" ELSE "l145"
    /\ UNCHANGED <<active_servos, current_angles, target_angle, step, num_steps,
                   increments, step_num, i, new_angle, pc, exc, requested,
                   start_angles, tick_writes, snap_writes, last_target>>

\* lines 73-78 and 136: between 1 and NUM_SERVOS servo objects were created
InitSweep ==
    /\ \E n \in 1..NUM_SERVOS :
          /\ active_servos = [k \in 1..n |-> None]
          /\ current_angles = [k \in 1..n |-> None]
          /\ increments = [k \in 1..n |-> R(0)]
          /\ tick_writes = [k \in 1..n |-> 0]
          /\ snap_writes = [k \in 1..n |-> 0]
    /\ start_angles = current_angles
    /\ target_angle = None
    /\ requested = None
    /\ step = R(SWEEP_STEP)
    /\ num_steps = 0
    /\ step_num = 0
    /\ i = 1
    /\ new_angle = None
    /\ pc = "idle"
    /\ mpc = "init_write"
    /\ exc = "none"
    /\ last_target = None

\* the statements of the script, in program order
Program ==
    \/ InitWrite
    \/ InitStore
    \/ InitSleep
    \/ CallMove
    \/ Pause
    \/ Plan
    \/ TickWrite
    \/ TickStore
    \/ TickSleep
    \/ SnapWrite
    \/ SnapStore
    \/ Return

SweepNext ==
    \/ Program
    \/ ServoWriteFails
    \/ KeyboardInterrupt

SweepSpec == InitSweep /\ [][SweepNext]_vars

\* the interpreter keeps executing the script until an exception ends it
LiveSweepSpec == InitSweep /\ [][SweepNext]_vars /\ WF_vars(Program)

(***************************************************************************)
(* Vocabulary of the properties, computed from the history variables and   *)
(* independently of the helpers above.                                     *)
(***************************************************************************)
Clamped(a) ==
    IF RLt(a, R(0)) THEN R(0)
    ELSE IF RLt(R(SERVO_ACTUATION_RANGE), a) THEN R(SERVO_ACTUATION_RANGE)
    ELSE a

\* exact product, used to state k * increment
RMul(a, b) == Norm(a[1] * b[1], a[2] * b[2])

InRange(a) == RLe(R(0), a) /\ RLe(a, R(SERVO_ACTUATION_RANGE))

Between(a, x, b) == (RLe(a, x) /\ RLe(x, b)) \/ (RLe(b, x) /\ RLe(x, a))

PositiveStep == RLt(R(0), step)

\* the servos the move acts on
MovedServos == {k \in Servos : start_angles[k] # None}

\* the planning of lines 83-107 is over (single call)
Planned == pc # "plan"

InTickLoop == pc \in {"tick_write", "tick_store", "tick_sleep"}
AfterTickLoop == pc \in {"snap_write", "snap_store", "return", "returned"}

\* number of iterations of "for step_num in range(num_steps)"
TickCount == IF num_steps > 0 THEN num_steps ELSE 0

\* floor(largest |clamped target - start| / step) for step > 0, at least 1
ExpectedTicks ==
    LET D == {RAbs(RSub(Clamped(requested), start_angles[k])) : k \in MovedServos}
                \cup {R(0)}
        m == CHOOSE d \in D : \A e \in D : RLe(e, d)
        q == RDiv(m, step)
        f == q[1] \div q[2]
    IN  IF f < 1 THEN 1 ELSE f

\* ticks whose angle has been stored in the tracker of servo k
StoredTicks(k) == tick_writes[k] - (IF pc = "tick_store" /\ i = k THEN 1 ELSE 0)

\* start + n * (clamped target - start) / num_steps
Interpolated(k, n) ==
    RAdd(start_angles[k],
         RDiv(RMul(R(n), RSub(Clamped(requested), start_angles[k])), R(num_steps)))

AllStartAtTarget == \A k \in MovedServos : start_angles[k] = Clamped(requested)

(***************************************************************************)
(* C1                                                                      *)
(***************************************************************************)
\* C1: whenever move_servos_smoothly returns normally with step > 0, the
\* tracked angle of every moved servo and the last angle written to it are
\* both exactly clamp(target, 0, SERVO_ACTUATION_RANGE).
C1_ExactClampedTarget ==
    (pc = "returned" /\ PositiveStep) =>
        \A k \in MovedServos :
            /\ current_angles[k] = Clamped(requested)
            /\ active_servos[k] = Clamped(requested)

C1_Witness ==
    /\ pc = "returned" /\ PositiveStep
    /\ requested = R(SERVO_ACTUATION_RANGE + OverTarget)
    /\ \E k \in MovedServos :
          /\ tick_writes[k] > 1
          /\ current_angles[k] = R(SERVO_ACTUATION_RANGE)
          /\ start_angles[k] # R(SERVO_ACTUATION_RANGE)

(***************************************************************************)
(* C2                                                                      *)
(***************************************************************************)
\* C2: lockstep.  All moved servos share one tick count; each receives
\* exactly that many tick writes; every write of tick k precedes any write
\* of tick k+1; at every moment the tick writes received by two servos
\* differ by at most one.
C2_Lockstep ==
    Planned =>
        /\ \A j, k \in MovedServos :
              tick_writes[j] - tick_writes[k] \in {-1, 0, 1}
        /\ \A k \in MovedServos :
              /\ tick_writes[k] >= step_num
              /\ tick_writes[k] <= step_num + 1
              /\ tick_writes[k] <= TickCount
        /\ AfterTickLoop => \A k \in MovedServos : tick_writes[k] = TickCount

C2_Witness ==
    /\ pc = "tick_store" /\ step_num >= 1 /\ num_steps > 2
    /\ \E j, k \in MovedServos :
          /\ tick_writes[j] = step_num + 1
          /\ tick_writes[k] = step_num
          /\ increments[j] # increments[k]

(***************************************************************************)
(* C3                                                                      *)
(***************************************************************************)
\* C3: with step > 0 the number of ticks executed is
\* max(1, floor(maxAbsDelta / step)); when every servo already is at the
\* target the single tick re-asserts the current angle on every servo.
C3_TickCount ==
    PositiveStep =>
        /\ AfterTickLoop =>
              /\ step_num = ExpectedTicks
              /\ \A k \in MovedServos : tick_writes[k] = ExpectedTicks
        /\ (Planned /\ AllStartAtTarget) =>
              /\ num_steps = 1
              /\ \A k \in MovedServos :
                    (tick_writes[k] = 1 /\ snap_writes[k] = 0)
                        => active_servos[k] = start_angles[k]

C3_Witness ==
    /\ pc = "snap_write" /\ PositiveStep
    /\ AllStartAtTarget
    /\ MovedServos # {}
    /\ step_num = 1
    /\ \A k \in MovedServos : tick_writes[k] = 1 /\ active_servos[k] = start_angles[k]

(***************************************************************************)
(* C4                                                                      *)
(***************************************************************************)
\* C4: every angle a move writes to a servo, in any tick and in the final
\* adjustment, lies within [0, SERVO_ACTUATION_RANGE].
C4_WritesInRange ==
    \A k \in Servos :
        (tick_writes[k] + snap_writes[k] > 0) => InRange(active_servos[k])

C4_Witness ==
    /\ pc = "tick_store" /\ PositiveStep
    /\ ~InRange(new_angle)
    /\ active_servos[i] = Clamped(new_angle)

(***************************************************************************)
(* C5                                                                      *)
(***************************************************************************)
\* C5: after every tick write and after the final adjustment the tracked
\* angle of a servo is within [0, SERVO_ACTUATION_RANGE] and equals the
\* angle written to that servo.
C5_TrackedClamped ==
    \A k \in Servos :
        (/\ tick_writes[k] + snap_writes[k] > 0
         /\ ~(pc \in {"tick_store", "snap_store"} /\ i = k))
            => /\ InRange(current_angles[k])
               /\ current_angles[k] = active_servos[k]

(***************************************************************************)
(* C8                                                                      *)
(***************************************************************************)
\* C8: a move requested with step <= 0 fails before it starts: no servo is
\* written, no tracked angle changes, and the call does not return normally.
C8_NonPositiveStepRejected ==
    RLe(step, R(0)) =>
        /\ \A k \in Servos : tick_writes[k] = 0 /\ snap_writes[k] = 0
        /\ current_angles = start_angles
        /\ pc # "returned"

(***************************************************************************)
(* C10                                                                     *)
(***************************************************************************)
\* C10: for a servo whose starting angle is in range, the tracked angle
\* after tick k (0 <= k <= tickCount, before the final adjustment) is
\* start + k * (clampedTarget - start) / tickCount; it lies between the
\* start and the clamped target; after the last tick it is the clamped target.
C10_Proportional ==
    Planned =>
        \A k \in MovedServos :
            (InRange(start_angles[k]) /\ snap_writes[k] = 0
                 /\ ~(pc = "snap_store" /\ i = k)) =>
                /\ current_angles[k] = Interpolated(k, StoredTicks(k))
                /\ Between(start_angles[k], current_angles[k], Clamped(requested))
                /\ (InTickLoop \/ AfterTickLoop) /\ step_num = num_steps
                      => current_angles[k] = Clamped(requested)

C10_Witness ==
    /\ pc = "tick_sleep" /\ step_num >= 1 /\ step_num + 1 < num_steps
    /\ \E j, k \in MovedServos :
          /\ InRange(start_angles[j]) /\ InRange(start_angles[k])
          /\ increments[j] # increments[k]
          /\ increments[k][2] > 1
          /\ current_angles[k] = Interpolated(k, step_num + 1)
          /\ current_angles[k] # Clamped(requested)

(***************************************************************************)
(* Properties of the main execution.                                       *)
(***************************************************************************)
InMove == pc \notin {"idle", "plan"}

\* every active servo rests at angle a during the pause after a move
AllAt(a) ==
    /\ mpc \in {"l146", "l149"}
    /\ \A k \in Servos : current_angles[k] = R(a) /\ active_servos[k] = R(a)

(***************************************************************************)
(* C6                                                                      *)
(***************************************************************************)
\* C6: when Ctrl+C cancels a move inside its tick loop, all moved servos are
\* tracked at the interpolated angle of one and the same tick k
\* (start + k * increment), and no final-adjustment write has been made.
C6_CancelledBetweenTicks ==
    (exc = "KeyboardInterrupt" /\ InTickLoop) =>
        /\ \E n \in 0..TickCount :
              \A k \in MovedServos :
                  current_angles[k] = RAdd(start_angles[k], RMul(R(n), increments[k]))
        /\ \A k \in Servos : snap_writes[k] = 0

(***************************************************************************)
(* C7                                                                      *)
(***************************************************************************)
\* C7: when a servo write raises, nothing more happens (no retry, no further
\* servo write or tracker update: the error ends the sweep) and every
\* servo's tracked angle is the last angle its servo accepted.
C7_FailFast ==
    exc = "OSError" =>
        /\ ~ENABLED SweepNext
        /\ \A k \in Servos : current_angles[k] = active_servos[k]

C7_Witness ==
    /\ exc = "OSError"
    /\ pc = "tick_write" /\ step_num >= 1 /\ i >= 2
    /\ tick_writes[1] = step_num + 1
    /\ tick_writes[i] = step_num
    /\ current_angles[1] # current_angles[i]

(***************************************************************************)
(* C9                                                                      *)
(***************************************************************************)
\* C9: the sweep alternates forever.  Moves are requested in the order
\* SWEEP_END_ANGLE, SWEEP_START_ANGLE, SWEEP_END_ANGLE, ...; each move
\* starts from the angles the previous one ended at; unless an interrupt or
\* a failure ends the script, every move terminates (control is back in the
\* main loop again and again) and all active servos are infinitely often
\* exactly at SWEEP_END_ANGLE and infinitely often exactly at
\* SWEEP_START_ANGLE.
C9_SweepAlternates ==
    /\ [][(pc = "idle" /\ pc' = "plan") =>
             \/ /\ requested' = R(SWEEP_END_ANGLE)
                /\ last_target \in {None, R(SWEEP_START_ANGLE)}
             \/ /\ requested' = R(SWEEP_START_ANGLE)
                /\ last_target = R(SWEEP_END_ANGLE)]_vars
    /\ [](pc = "plan" =>
             \A k \in Servos :
                 current_angles[k] =
                     IF last_target = None THEN R(INITIAL_ANGLE) ELSE last_target)
    /\ []<>(pc = "idle" \/ exc # "none")
    /\ []<>(AllAt(SWEEP_END_ANGLE) \/ exc # "none")
    /\ []<>(AllAt(SWEEP_START_ANGLE) \/ exc # "none")

C9_Witness ==
    /\ AllAt(SWEEP_START_ANGLE)
    /\ last_target = R(SWEEP_START_ANGLE)
    /\ N = NUM_SERVOS
    /\ exc = "none"

====
